---- MODULE Spec2Model ----
(***************************************************************************)
(* Model of the ESP32-CAM node firmware Arduino/AI_Thinker/AI_Thinker.ino: *)
(* the cooperative main loop (server.handleClient, ensureMqtt, mqtt.loop,  *)
(* the flag-driven capture), the web handlers, the MQTT callback and       *)
(* captureAndSend, cut at the statements where the spec's node states      *)
(* (capturing, persisting, uploading, reported) change.                    *)
(*                                                                         *)
(* Characters are ASCII codes, so that String::trim and                    *)
(* String::toLowerCase are computed, not assumed.  A publish is recorded   *)
(* as the call the firmware makes, with `sent` telling whether the client  *)
(* was connected when it was made (PubSubClient drops a publish made while *)
(* disconnected).                                                          *)
(***************************************************************************)
EXTENDS Integers, Sequences, FiniteSets, TLC

VARIABLES
    pc,                  \* the statement of loop() / captureAndSend() reached
    triggerMqttCapture,  \* volatile bool, line 67
    triggerWebCapture,   \* volatile bool, line 68
    connected,           \* mqtt.connected()
    elapsed,             \* millis() - lastMqttAttempt, saturated at the interval
    latest,              \* /latest.jpg in LittleFS: "absent", "partial", "full"
    httpPending,         \* web requests received by the network stack, not yet served
    delivered,           \* messages handed to mqttCallback by the current mqtt.loop()
    connLog,             \* what the latest ensureMqtt() call sent
    httpResp,            \* response of the web handler that ran in this iteration
    doUpload,            \* loop(): bool doUpload, line 306
    fb,                  \* captureAndSend: the frame buffer held (its length), or NoFrame
    fsOk,                \* captureAndSend: bool fsOk
    httpOk,              \* captureAndSend: bool httpOk
    ok,                  \* loop(): bool ok, line 313
    webInflight,         \* history: the web flag was set by a request that arrived
                         \* while a network-triggered attempt was in flight
    att,                 \* history: the flags the loop saw when it started the attempt
    trace,               \* history: the calls of the current attempt, in order
    tally,               \* history: the counts of accepted commands, network
                         \* captures and outcome reports, kept when tally.on
    lostReport           \* history: the latest outcome report was published while
                         \* the client was disconnected, so it was not sent

\* The coordinator (the FastAPI server of unnamed/part_000, whose code is not
\* part of the sources): the state the specification gives it.
VARIABLES
    sessions,            \* the Session records, in order of session_id
    now,                 \* the coordinator's clock
    store,               \* session directories: keys <<session_id, node_id, attempt>>
    orphans,             \* the orphan bucket: keys of belated or misattributed uploads
    triggers,            \* trigger messages published on the command subject
    lastResult           \* what the latest start_session call returned

nodeVars == <<pc, triggerMqttCapture, triggerWebCapture, connected, elapsed, latest,
              httpPending, delivered, connLog, httpResp, doUpload, fb, fsOk,
              httpOk, ok, webInflight, att, trace, lostReport, tally>>

hubVars == <<sessions, now, store, orphans, triggers, lastResult>>

vars == <<nodeVars, hubVars>>

----------------------------------------------------------------------------
(* Bounds of the model *)

MaxHttpPending == 1     \* web requests waiting in the network stack
MaxBurst == 1           \* messages one mqtt.loop() call hands to the callback
MaxFrameLen == 2        \* fb->len, in bytes
MaxCountedBurst == 2    \* the same as MaxBurst, in the runs that count
MaxAccepted == 2        \* capture commands accepted in a run that counts

(* Program constants *)

RetryIntervalMs == 3000
HttpOkCode == 200

ClockStepMs == RetryIntervalMs \div 3

topic_cmd  == "esp32cam/cmd"
topic_url  == "esp32cam/url"
topic_stat == "esp32cam/status"
fsPath     == "/latest.jpg"
serverUrl  == "http://10.167.157.26:8000/upload"

NoFrame == 0

\* HTTPClient::POST returns the HTTP status, or a negative transport error.
HttpCodes == {200, 201, 500, -1}

----------------------------------------------------------------------------
(* Arduino String: trim() and toLowerCase() over ASCII codes *)

isspace(c) == c = 32 \/ c \in 9..13

tolower(c) == IF c \in 65..90 THEN c + 32 ELSE c

RECURSIVE DropLeading(_)
DropLeading(s) ==
    IF s # <<>> /\ isspace(Head(s)) THEN DropLeading(Tail(s)) ELSE s

RECURSIVE DropTrailing(_)
DropTrailing(s) ==
    IF s # <<>> /\ isspace(s[Len(s)])
    THEN DropTrailing(SubSeq(s, 1, Len(s) - 1))
    ELSE s

trim(s) == DropTrailing(DropLeading(s))

\* mutant: the payload is compared as it was sent
toLowerCase_AsSent(s) == s

toLowerCase(s) == [i \in 1..Len(s) |-> tolower(s[i])]

\* "capture"
CaptureWord == <<99, 97, 112, 116, 117, 114, 101>>

\* session ids a coordinator could append to the directive: "1", "s1"
SessionIds == {<<49>>, <<115, 49>>}

\* the directive followed by a separator (space or ':') and a session id
WithSession(sep, sid) == CaptureWord \o <<sep>> \o sid

SessionPayloads == {WithSession(sep, sid) : sep \in {32, 58}, sid \in SessionIds}

Payloads ==
    { CaptureWord,
      <<67, 65, 80, 84, 85, 82, 69>>,                 \* "CAPTURE"
      <<32, 67, 97, 112, 116, 117, 114, 101, 10>>,    \* " Capture\n"
      <<99, 97, 112, 32, 116, 117, 114, 101>>,        \* "cap ture"
      <<115, 116, 111, 112>>,                         \* "stop"
      <<>> } \cup SessionPayloads

Messages ==
    [topic : {topic_cmd}, payload : Payloads]
        \cup {[topic |-> topic_stat, payload |-> CaptureWord]}

----------------------------------------------------------------------------
(* The calls an attempt makes, as recorded in trace and connLog *)

FbGet(got) == [op |-> "fb_get", ok |-> got]

FsWrite(opened, full) == [op |-> "fs_write", opened |-> opened, full |-> full]

HttpPost(len, code) ==
    [op |-> "post", url |-> serverUrl, contentType |-> "image/jpeg",
     len |-> len, code |-> code]

FbReturn == [op |-> "fb_return"]

\* mqtt.publish(topic, payload, retained); the payload is a record of the
\* fields the published text carries.
Publish(topic, payload, retained, isSent) ==
    [op |-> "publish", topic |-> topic, payload |-> payload,
     retained |-> retained, sent |-> isSent]

Subscribe(topic) == [op |-> "subscribe", topic |-> topic]

\* mqtt.connect(clientId, topic_stat, 0, true, "offline"): the connection
\* attempt, with its retained last will
MqttConnect(success) ==
    [op |-> "connect", willTopic |-> topic_stat, willPayload |-> "offline",
     willRetained |-> TRUE, ok |-> success]

\* publishUrl(): the retained retrieval address "http://<localIP>/latest.jpg"
publishUrl(isSent) ==
    Publish(topic_url, [url |-> "http://<localIP>" \o fsPath], TRUE, isSent)

----------------------------------------------------------------------------
(* Expressions of the firmware *)

IsPrefix(p, s) == Len(p) <= Len(s) /\ SubSeq(s, 1, Len(p)) = p

\* mutant: the directive is matched as a prefix of the payload
mqttCallback_Prefix(flag, msg) ==
    IF msg.topic = topic_cmd
       /\ IsPrefix(CaptureWord, toLowerCase(trim(msg.payload)))
    THEN TRUE
    ELSE flag

\* mqttCallback: the value of triggerMqttCapture after the callback ran on msg
mqttCallback(flag, msg) ==
    IF msg.topic = topic_cmd /\ toLowerCase(trim(msg.payload)) = CaptureWord
    THEN TRUE
    ELSE flag

\* loop(): if (triggerMqttCapture || triggerWebCapture)
\* a loop that starts a capture for the web flag only
CaptureRequested_WebOnly(mqttFlag, webFlag) == webFlag

CaptureRequested(mqttFlag, webFlag) == mqttFlag \/ webFlag

\* mutant: the web flag decides
DoUpload_WebOnly(mqttFlag, webFlag) == webFlag

\* mutant: every capture uploads
DoUpload_Either(mqttFlag, webFlag) == mqttFlag \/ webFlag

\* loop(): bool doUpload = triggerMqttCapture;
DoUpload(mqttFlag, webFlag) == mqttFlag

\* mutant: the network flag is left set
MqttFlagAfterExam_Kept(mqttFlag, webFlag) == mqttFlag

\* loop(): triggerMqttCapture = false;
MqttFlagAfterExam(mqttFlag, webFlag) == FALSE

\* mutant: the web flag is cleared only when it was the one acted on
WebFlagAfterExam_Kept(mqttFlag, webFlag) == webFlag /\ mqttFlag

\* loop(): triggerWebCapture = false;
WebFlagAfterExam(mqttFlag, webFlag) == FALSE

\* captureAndSend: bool httpOk = !doUpload;
HttpOkInit(upload) == ~upload

\* captureAndSend: fsOk = (w == fb->len);
FsOk(w, len) == w = len

\* mutant: every 2xx answer counts as success
HttpOk_AnySuccess(code) == code \in 200..299

\* captureAndSend: httpOk = (code == 200);
HttpOk(code) == code = HttpOkCode

\* mutant: the upload is skipped when the local write failed
UploadWanted_IfStored(upload, fileOk) == upload /\ fileOk

\* captureAndSend: if (doUpload) { ... http.POST ... }
UploadWanted(upload, fileOk) == upload

\* mutant: the test is negated
UrlAnnounced_Negated(fileOk) == ~fileOk

\* mutant: the address is announced after every acquired frame
UrlAnnounced_Always(fileOk) == TRUE

\* captureAndSend: if (fsOk) publishUrl();
UrlAnnounced(fileOk) == fileOk

\* mutant: the result is that of the upload alone
CaptureResult_UploadOnly(fileOk, postOk) == postOk

\* captureAndSend: return fsOk && httpOk;
CaptureResult(fileOk, postOk) == fileOk /\ postOk

\* mutant: every capture is reported
ReportWanted_Always(upload) == TRUE

\* mutant: no attempt is reported
ReportWanted_Never(upload) == FALSE

\* loop(): if (doUpload) { mqtt.publish(topic_stat, ...) }
ReportWanted(upload) == upload

\* mutant: the report also names the node
ReportPayload_WithNodeId(result) ==
    [status |-> IF result THEN "captured" ELSE "capture_failed",
     node_id |-> "esp32cam-<efuse mac>"]

\* loop(): mqtt.publish(topic_stat, ok ? "captured" : "capture_failed", false)
ReportPayload(result) ==
    [status |-> IF result THEN "captured" ELSE "capture_failed"]

\* ensureMqtt: if (millis() - lastMqttAttempt < 3000) return;
\* an ensureMqtt() that attempts the connection on every call
TooEarly_Never(sinceLast) == FALSE

TooEarly(sinceLast) == sinceLast < RetryIntervalMs

\* counting is off
NoTally == [on |-> FALSE, accepted |-> 0, captures |-> 0, reports |-> 0]

\* the messages one mqtt.loop() call hands over, at most
BurstLimit == IF tally.on THEN MaxCountedBurst ELSE MaxBurst

\* mqttCallback took the message as a capture command
Accepted(msg) == mqttCallback(FALSE, msg)

NoAttempt == [started |-> FALSE, mqtt |-> FALSE, web |-> FALSE,
              inflight |-> FALSE, done |-> FALSE, late |-> FALSE]

Stages == {"acquire", "persist", "upload", "finish", "report"}

InFlightStages == {"acquire", "persist", "upload"}

\* the statements 306-308 of loop(), when they are taken one by one
PreemptStages == {"readDoUpload", "clearMqtt", "clearWeb"}

TypeOK ==
    /\ pc \in {"handleClient", "ensureMqtt", "mqttLoop", "checkFlags"}
               \cup PreemptStages \cup Stages
    /\ triggerMqttCapture \in BOOLEAN
    /\ triggerWebCapture \in BOOLEAN
    /\ connected \in BOOLEAN
    /\ elapsed \in 0..RetryIntervalMs
    /\ latest \in {"absent", "partial", "full"}
    /\ Len(httpPending) <= MaxHttpPending
    /\ Len(delivered) <= BurstLimit
    /\ fb \in 0..MaxFrameLen
    /\ doUpload \in BOOLEAN /\ fsOk \in BOOLEAN /\ httpOk \in BOOLEAN
    /\ ok \in BOOLEAN /\ webInflight \in BOOLEAN
    /\ lostReport \in BOOLEAN
    /\ tally \in [on : BOOLEAN, accepted : 0..MaxAccepted,
                  captures : 0..MaxAccepted, reports : 0..MaxAccepted]

----------------------------------------------------------------------------
(* The coordinator: Trigger Broadcaster, Upload Receiver and Session        *)
(* Assembler.  Its code (the FastAPI server app.py that unnamed/part_000    *)
(* starts) is not among the sources, so these definitions follow sections   *)
(* 3, 4.1, 4.3 and 4.4 of the specification.                                *)

MaxNodes == 2           \* nodes known to the roster
MaxSessions == 2        \* sessions started
MaxTime == 1            \* ticks of the coordinator's clock
MaxOrphans == 1         \* images kept in the orphan bucket

max_attempts == 2       \* the configured retry bound
DeadlineTicks == 1      \* deadline - opened_at

Nodes == 1..MaxNodes

HubSessionIds == 1..MaxSessions

Attempts == 1..max_attempts

Rosters == (SUBSET Nodes) \ {{}}

TerminalStates == {"uploaded", "failed", "timed_out"}

NodeStates == {"awaiting_trigger_ack", "capturing", "uploading"} \cup TerminalStates

Verdicts == {"pending", "complete", "degraded", "failed"}

ImageKey(s, n, a) == <<s, n, a>>

NoImage == <<>>

\* the per-node status record (last_update, which no operation reads, is left out)
NodeStatus(state, count, ref) ==
    [state |-> state, attempt_count |-> count, image_ref |-> ref]

NewSession(sid, roster) ==
    [session_id |-> sid,
     expected_nodes |-> roster,
     node_states |-> [n \in roster |->
                        NodeStatus("awaiting_trigger_ack", 1, NoImage)],
     opened_at |-> now,
     deadline |-> now + DeadlineTicks,
     verdict |-> "pending"]

Trigger(sid, to, attempt) == [session_id |-> sid, to |-> to, attempt |-> attempt]

Started(sid) == [error |-> "", session_id |-> sid]

SessionBusy == [error |-> "SessionBusy", session_id |-> 0]

Pending == {s \in DOMAIN sessions : sessions[s].verdict = "pending"}

\* a coordinator that lets a new session start while one is pending
Busy_Never == FALSE

Busy == Pending # {}

\* a coordinator that keeps applying events to a session it knows, finalized or not
SessionOpen_AnyKnown(s) == s \in DOMAIN sessions

SessionOpen(s) == s \in Pending

Expected(s, n) == SessionOpen(s) /\ n \in sessions[s].expected_nodes

IsTerminal(state) == state \in TerminalStates

\* an event is applied whenever it names the node's current attempt
AttemptOpen_IgnoresTerminal(rec, a) == a = rec.attempt_count

\* the event names the node's current attempt, and that attempt is not terminal
AttemptOpen(rec, a) == a = rec.attempt_count /\ ~IsTerminal(rec.state)

\* a retry policy without the bound
MayRetry_Unbounded(rec) == rec.state = "failed"

MayRetry(rec) == rec.state = "failed" /\ rec.attempt_count < max_attempts

Succeeded(session) ==
    {n \in session.expected_nodes : session.node_states[n].state = "uploaded"}

\* an all-or-nothing policy
Verdict_AllOrNothing(session) ==
    IF Succeeded(session) = session.expected_nodes THEN "complete" ELSE "failed"

Verdict(session) ==
    IF Succeeded(session) = session.expected_nodes THEN "complete"
    ELSE IF Succeeded(session) # {} THEN "degraded"
    ELSE "failed"

AllTerminal(session) ==
    \A n \in session.expected_nodes : IsTerminal(session.node_states[n].state)

TimedOut(session) ==
    [session EXCEPT !.node_states =
        [n \in session.expected_nodes |->
            IF IsTerminal(session.node_states[n].state)
            THEN session.node_states[n]
            ELSE [session.node_states[n] EXCEPT !.state = "timed_out"]]]

Finalized(session) == [session EXCEPT !.verdict = Verdict(session)]

HubTypeOK ==
    /\ Len(sessions) <= MaxSessions
    /\ \A s \in DOMAIN sessions :
         /\ sessions[s].session_id = s
         /\ sessions[s].expected_nodes \in Rosters
         /\ sessions[s].verdict \in Verdicts
         /\ DOMAIN sessions[s].node_states = sessions[s].expected_nodes
         /\ \A n \in sessions[s].expected_nodes :
              sessions[s].node_states[n].state \in NodeStates
    /\ now \in 0..MaxTime
    /\ store \subseteq (HubSessionIds \X Nodes \X Attempts)
    /\ orphans \subseteq (HubSessionIds \X Nodes \X Attempts)
    /\ Cardinality(orphans) <= MaxOrphans

HubStart ==
    /\ sessions = <<>>
    /\ now = 0
    /\ store = {}
    /\ orphans = {}
    /\ triggers = {}
    /\ lastResult = Started(0)

(* What a node that follows the specification's capture state machine can
   send: its upload is stored only in an attempt that it reports as ok, and
   a node that was not triggered again is in its first attempt. *)

UploadPlausible(s, n, a) ==
    IF Expected(s, n)
    THEN /\ a = sessions[s].node_states[n].attempt_count
         /\ sessions[s].node_states[n].state # "failed"
    ELSE a = 1

ReportPlausible(s, n, a, status) ==
    (Expected(s, n) /\ AttemptOpen(sessions[s].node_states[n], a)) =>
        (status = "ok") = (ImageKey(s, n, a) \in store)

----------------------------------------------------------------------------
(* The coordinator's operations *)

\* 4.1 start_session(roster) -> session_id
start_session(roster) ==
    /\ IF Busy
       THEN /\ lastResult' = SessionBusy
            /\ UNCHANGED <<sessions, triggers>>
       ELSE /\ Len(sessions) < MaxSessions
            /\ now + DeadlineTicks <= MaxTime
            /\ sessions' = Append(sessions, NewSession(Len(sessions) + 1, roster))
            /\ triggers' = triggers \cup {Trigger(Len(sessions) + 1, roster, 1)}
            /\ lastResult' = Started(Len(sessions) + 1)
    /\ UNCHANGED <<now, store, orphans>>
    /\ UNCHANGED nodeVars

StartSession == \E roster \in Rosters : start_session(roster)

\* 4.3 the Upload Receiver persists the payload under (session_id, node_id,
\* attempt), or in the orphan bucket when the session is not resolvable
upload_received(s, n, a) ==
    /\ UploadPlausible(s, n, a)
    /\ IF SessionOpen(s)
       THEN /\ store' = store \cup {ImageKey(s, n, a)}
            /\ UNCHANGED orphans
       ELSE /\ Cardinality(orphans \cup {ImageKey(s, n, a)}) <= MaxOrphans
            /\ orphans' = orphans \cup {ImageKey(s, n, a)}
            /\ UNCHANGED store
    /\ UNCHANGED <<sessions, now, triggers, lastResult>>
    /\ UNCHANGED nodeVars

UploadReceived ==
    \E s \in HubSessionIds : \E n \in Nodes : \E a \in Attempts :
        upload_received(s, n, a)

\* 4.4 the Assembler applies an image_arrived event
image_arrived(s, n, a) ==
    /\ ImageKey(s, n, a) \in store \cup orphans
    /\ sessions' =
         IF /\ Expected(s, n)
            /\ ImageKey(s, n, a) \in store
            /\ AttemptOpen(sessions[s].node_states[n], a)
            /\ sessions[s].node_states[n].state # "uploading"
         THEN [sessions EXCEPT ![s].node_states[n] =
                  NodeStatus("uploading", a, NoImage)]
         ELSE sessions
    /\ UNCHANGED <<now, store, orphans, triggers, lastResult>>
    /\ UNCHANGED nodeVars

ImageArrived ==
    \E s \in HubSessionIds : \E n \in Nodes : \E a \in Attempts :
        image_arrived(s, n, a)

\* 4.4 the Assembler applies an outcome report {node_id, session_id, attempt, status}
outcome_report(s, n, a, status) ==
    /\ ReportPlausible(s, n, a, status)
    /\ sessions' =
         IF Expected(s, n) /\ AttemptOpen(sessions[s].node_states[n], a)
         THEN [sessions EXCEPT ![s].node_states[n] =
                  IF status = "ok"
                  THEN NodeStatus("uploaded", a, ImageKey(s, n, a))
                  ELSE NodeStatus("failed", a, NoImage)]
         ELSE sessions
    /\ UNCHANGED <<now, store, orphans, triggers, lastResult>>
    /\ UNCHANGED nodeVars

OutcomeReport ==
    \E s \in HubSessionIds : \E n \in Nodes : \E a \in Attempts :
        \E status \in {"ok", "failed"} : outcome_report(s, n, a, status)

\* 4.4 retry policy: one failed node is triggered again
retrigger(s, n) ==
    /\ Expected(s, n)
    /\ now < sessions[s].deadline
    /\ MayRetry(sessions[s].node_states[n])
    /\ sessions' =
         [sessions EXCEPT ![s].node_states[n] =
            NodeStatus("awaiting_trigger_ack",
                       sessions[s].node_states[n].attempt_count + 1, NoImage)]
    /\ triggers' = triggers \cup
         {Trigger(s, {n}, sessions[s].node_states[n].attempt_count + 1)}
    /\ UNCHANGED <<now, store, orphans, lastResult>>
    /\ UNCHANGED nodeVars

Retrigger == \E s \in HubSessionIds : \E n \in Nodes : retrigger(s, n)

\* 4.4 the deadline timer fires
deadline_expired(s) ==
    /\ SessionOpen(s)
    /\ now >= sessions[s].deadline
    /\ sessions' = [sessions EXCEPT ![s] = Finalized(TimedOut(sessions[s]))]
    /\ UNCHANGED <<now, store, orphans, triggers, lastResult>>
    /\ UNCHANGED nodeVars

DeadlineExpired == \E s \in HubSessionIds : deadline_expired(s)

\* 4.4 the verdict is evaluated once all expected nodes are terminal
all_terminal(s) ==
    /\ SessionOpen(s)
    /\ AllTerminal(sessions[s])
    /\ sessions' = [sessions EXCEPT ![s] = Finalized(sessions[s])]
    /\ UNCHANGED <<now, store, orphans, triggers, lastResult>>
    /\ UNCHANGED nodeVars

AllTerminalReached == \E s \in HubSessionIds : all_terminal(s)

\* the clock advances; the timer of a pending session fires at its deadline
HubTick ==
    /\ now < MaxTime
    /\ \A s \in Pending : now < sessions[s].deadline
    /\ now' = now + 1
    /\ UNCHANGED <<sessions, store, orphans, triggers, lastResult>>
    /\ UNCHANGED nodeVars

HubNext ==
    \/ StartSession
    \/ UploadReceived
    \/ ImageArrived
    \/ OutcomeReport
    \/ Retrigger
    \/ DeadlineExpired
    \/ AllTerminalReached
    \/ HubTick

----------------------------------------------------------------------------
(* The state after setup(): the flags are false; setup's ensureMqtt() call  *)
(* connected or not; LittleFS may hold /latest.jpg from before the reset.   *)

NodeStart ==
    /\ pc = "handleClient"
    /\ triggerMqttCapture = FALSE
    /\ triggerWebCapture = FALSE
    /\ connected \in BOOLEAN
    /\ elapsed \in {0, RetryIntervalMs}
    /\ latest \in {"absent", "full"}
    /\ httpPending = <<>>
    /\ delivered = <<>>
    /\ connLog = <<>>
    /\ httpResp = 0
    /\ doUpload = FALSE
    /\ fb = NoFrame
    /\ fsOk = FALSE
    /\ httpOk = FALSE
    /\ ok = FALSE
    /\ webInflight = FALSE
    /\ att = NoAttempt
    /\ trace = <<>>
    /\ lostReport = FALSE
    /\ HubStart

Init == NodeStart /\ tally = NoTally

----------------------------------------------------------------------------
(* The environment *)

\* A browser sends a request; it waits in the network stack until
\* server.handleClient() serves it.
WebRequestArrives ==
    /\ Len(httpPending) < MaxHttpPending
    /\ \E path \in {"/", "/capture", "/latest.jpg"} :
         httpPending' = Append(httpPending,
             [path |-> path,
              inflight |-> (pc \in InFlightStages /\ doUpload)])
    /\ UNCHANGED <<pc, triggerMqttCapture, triggerWebCapture, connected, elapsed,
                   latest, delivered, connLog, httpResp, doUpload, fb, fsOk,
                   httpOk, ok, webInflight, att, trace>>
    /\ UNCHANGED <<lostReport, tally>>
    /\ UNCHANGED hubVars

\* The control channel is lost.
Disconnect ==
    /\ connected
    /\ connected' = FALSE
    /\ UNCHANGED <<pc, triggerMqttCapture, triggerWebCapture, elapsed, latest,
                   httpPending, delivered, connLog, httpResp, doUpload, fb, fsOk,
                   httpOk, ok, webInflight, att, trace>>
    /\ UNCHANGED <<lostReport, tally>>
    /\ UNCHANGED hubVars

\* millis() advances.
Tick ==
    /\ elapsed < RetryIntervalMs
    /\ elapsed' = IF elapsed + ClockStepMs > RetryIntervalMs
                  THEN RetryIntervalMs ELSE elapsed + ClockStepMs
    /\ UNCHANGED <<pc, triggerMqttCapture, triggerWebCapture, connected, latest,
                   httpPending, delivered, connLog, httpResp, doUpload, fb, fsOk,
                   httpOk, ok, webInflight, att, trace>>
    /\ UNCHANGED <<lostReport, tally>>
    /\ UNCHANGED hubVars

----------------------------------------------------------------------------
(* loop(), line 300: server.handleClient() serves one waiting request *)

\* A new iteration of loop(): the locals of the previous one are gone.
NewIteration ==
    /\ att' = NoAttempt
    /\ trace' = <<>>
    /\ connLog' = <<>>
    /\ doUpload' = FALSE
    /\ fsOk' = FALSE
    /\ httpOk' = FALSE
    /\ ok' = FALSE

handleClientIdle ==
    /\ pc = "handleClient"
    /\ httpPending = <<>>
    /\ pc' = "ensureMqtt"
    /\ httpResp' = 0
    /\ NewIteration
    /\ UNCHANGED <<triggerMqttCapture, triggerWebCapture, connected, elapsed,
                   latest, httpPending, delivered, fb, webInflight>>
    /\ UNCHANGED <<lostReport, tally>>
    /\ UNCHANGED hubVars

handleRoot ==
    /\ pc = "handleClient"
    /\ httpPending # <<>>
    /\ Head(httpPending).path = "/"
    /\ httpPending' = Tail(httpPending)
    /\ httpResp' = 200
    /\ pc' = "ensureMqtt"
    /\ NewIteration
    /\ UNCHANGED <<triggerMqttCapture, triggerWebCapture, connected, elapsed,
                   latest, delivered, fb, webInflight>>
    /\ UNCHANGED <<lostReport, tally>>
    /\ UNCHANGED hubVars

\* Only sets the flag; the camera is used by loop().
handleCapture ==
    /\ pc = "handleClient"
    /\ httpPending # <<>>
    /\ Head(httpPending).path = "/capture"
    /\ httpPending' = Tail(httpPending)
    /\ triggerWebCapture' = TRUE
    /\ webInflight' = Head(httpPending).inflight
    /\ httpResp' = 302
    /\ pc' = "ensureMqtt"
    /\ NewIteration
    /\ UNCHANGED <<triggerMqttCapture, connected, elapsed, latest, delivered, fb>>
    /\ UNCHANGED <<lostReport, tally>>
    /\ UNCHANGED hubVars

handleLatest ==
    /\ pc = "handleClient"
    /\ httpPending # <<>>
    /\ Head(httpPending).path = "/latest.jpg"
    /\ httpPending' = Tail(httpPending)
    /\ httpResp' = IF latest = "absent" THEN 404 ELSE 200
    /\ pc' = "ensureMqtt"
    /\ NewIteration
    /\ UNCHANGED <<triggerMqttCapture, triggerWebCapture, connected, elapsed,
                   latest, delivered, fb, webInflight>>
    /\ UNCHANGED <<lostReport, tally>>
    /\ UNCHANGED hubVars

----------------------------------------------------------------------------
(* loop(), line 301: if (!mqtt.connected()) ensureMqtt(); *)

\* What a successful mqtt.connect() is followed by, lines 183-185.
\* a reconnect that also sends again the outcome report that was not delivered
OnConnected_ReplaysReport ==
    << Publish(topic_stat, [status |-> "online"], TRUE, TRUE),
       Subscribe(topic_cmd),
       publishUrl(TRUE) >>
    \o (IF lostReport
        THEN <<Publish(topic_stat, [status |-> "captured"], FALSE, TRUE)>>
        ELSE <<>>)

OnConnected ==
    << Publish(topic_stat, [status |-> "online"], TRUE, TRUE),
       Subscribe(topic_cmd),
       publishUrl(TRUE) >>

ensureMqtt ==
    /\ pc = "ensureMqtt"
    /\ pc' = "mqttLoop"
    /\ IF connected \/ TooEarly(elapsed)
       THEN UNCHANGED <<connected, elapsed, connLog>>
       ELSE /\ elapsed' = 0
            /\ \E success \in BOOLEAN :
                 /\ connected' = success
                 /\ connLog' = <<MqttConnect(success)>>
                                \o (IF success THEN OnConnected ELSE <<>>)
    /\ UNCHANGED <<triggerMqttCapture, triggerWebCapture, latest, httpPending,
                   delivered, httpResp, doUpload, fb, fsOk, httpOk, ok,
                   webInflight, att, trace>>
    /\ UNCHANGED <<lostReport, tally>>
    /\ UNCHANGED hubVars

----------------------------------------------------------------------------
(* loop(), line 302: mqtt.loop() hands the received messages to the callback *)

mqttDeliver ==
    /\ pc = "mqttLoop"
    /\ connected
    /\ Len(delivered) < BurstLimit
    /\ \E msg \in Messages :
         /\ (tally.on /\ Accepted(msg)) => tally.accepted < MaxAccepted
         /\ triggerMqttCapture' = mqttCallback(triggerMqttCapture, msg)
         /\ delivered' = Append(delivered, msg)
         /\ tally' = IF tally.on /\ Accepted(msg)
                     THEN [tally EXCEPT !.accepted = @ + 1]
                     ELSE tally
    /\ UNCHANGED <<pc, triggerWebCapture, connected, elapsed, latest, httpPending,
                   connLog, httpResp, doUpload, fb, fsOk, httpOk, ok, webInflight,
                   att, trace>>
    /\ UNCHANGED lostReport
    /\ UNCHANGED hubVars

mqttLoopReturn ==
    /\ pc = "mqttLoop"
    /\ pc' = "checkFlags"
    /\ UNCHANGED <<triggerMqttCapture, triggerWebCapture, connected, elapsed,
                   latest, httpPending, delivered, connLog, httpResp, doUpload, fb,
                   fsOk, httpOk, ok, webInflight, att, trace>>
    /\ UNCHANGED <<lostReport, tally>>
    /\ UNCHANGED hubVars

----------------------------------------------------------------------------
(* loop(), lines 305-311: the central capture logic *)

loopNoCapture ==
    /\ pc = "checkFlags"
    /\ ~CaptureRequested(triggerMqttCapture, triggerWebCapture)
    /\ pc' = "handleClient"
    /\ delivered' = <<>>
    /\ UNCHANGED <<triggerMqttCapture, triggerWebCapture, connected, elapsed,
                   latest, httpPending, connLog, httpResp, doUpload, fb, fsOk,
                   httpOk, ok, webInflight, att, trace>>
    /\ UNCHANGED <<lostReport, tally>>
    /\ UNCHANGED hubVars

loopStartCapture ==
    /\ pc = "checkFlags"
    /\ CaptureRequested(triggerMqttCapture, triggerWebCapture)
    /\ doUpload' = DoUpload(triggerMqttCapture, triggerWebCapture)
    /\ triggerMqttCapture' = MqttFlagAfterExam(triggerMqttCapture, triggerWebCapture)
    /\ triggerWebCapture' = WebFlagAfterExam(triggerMqttCapture, triggerWebCapture)
    /\ att' = [started |-> TRUE, mqtt |-> triggerMqttCapture,
               web |-> triggerWebCapture,
               inflight |-> (triggerWebCapture /\ webInflight), done |-> FALSE,
               late |-> FALSE]
    /\ webInflight' = FALSE
    /\ delivered' = <<>>
    /\ tally' = IF tally.on /\ triggerMqttCapture /\ tally.captures < MaxAccepted
                THEN [tally EXCEPT !.captures = @ + 1]
                ELSE tally
    /\ pc' = "acquire"
    /\ UNCHANGED <<connected, elapsed, latest, httpPending, connLog, httpResp, fb,
                   fsOk, httpOk, ok, trace>>
    /\ UNCHANGED lostReport
    /\ UNCHANGED hubVars

----------------------------------------------------------------------------
(* captureAndSend(fsPath, serverUrl, doUpload) *)

\* 1) esp_camera_fb_get(), lines 79-86
captureAcquire ==
    /\ pc = "acquire"
    /\ \E frame \in {NoFrame} \cup (1..MaxFrameLen) :
         IF frame = NoFrame
         THEN /\ trace' = Append(trace, FbGet(FALSE))
              /\ ok' = FALSE
              /\ pc' = "report"
              /\ UNCHANGED <<fb, fsOk, httpOk>>
         ELSE /\ trace' = Append(trace, FbGet(TRUE))
              /\ fb' = frame
              /\ fsOk' = FALSE
              /\ httpOk' = HttpOkInit(doUpload)
              /\ pc' = "persist"
              /\ ok' = ok
    /\ UNCHANGED <<triggerMqttCapture, triggerWebCapture, connected, elapsed,
                   latest, httpPending, delivered, connLog, httpResp, doUpload,
                   webInflight, att>>
    /\ UNCHANGED <<lostReport, tally>>
    /\ UNCHANGED hubVars

\* 2) LittleFS.open(fsPath, FILE_WRITE), f.write, lines 89-99
capturePersist ==
    /\ pc = "persist"
    /\ \E opened \in BOOLEAN :
         IF ~opened
         THEN /\ trace' = Append(trace, FsWrite(FALSE, FALSE))
              /\ UNCHANGED <<fsOk, latest>>
         ELSE \E w \in 0..fb :
                /\ fsOk' = FsOk(w, fb)
                /\ latest' = IF w = fb THEN "full" ELSE "partial"
                /\ trace' = Append(trace, FsWrite(TRUE, w = fb))
    /\ pc' = IF UploadWanted(doUpload, fsOk') THEN "upload" ELSE "finish"
    /\ UNCHANGED <<triggerMqttCapture, triggerWebCapture, connected, elapsed,
                   httpPending, delivered, connLog, httpResp, doUpload, fb, httpOk,
                   ok, webInflight, att>>
    /\ UNCHANGED <<lostReport, tally>>
    /\ UNCHANGED hubVars

\* an upload step that reports success before the POST has been answered
captureUpload_ReportsFirst ==
    /\ pc = "upload"
    /\ \E code \in HttpCodes :
         /\ httpOk' = HttpOk(code)
         /\ trace' = trace
                       \o <<Publish(topic_stat, [status |-> "captured"], FALSE,
                                    connected)>>
                       \o <<HttpPost(fb, code)>>
    /\ pc' = "finish"
    /\ UNCHANGED <<triggerMqttCapture, triggerWebCapture, connected, elapsed,
                   latest, httpPending, delivered, connLog, httpResp, doUpload, fb,
                   fsOk, ok, webInflight, att>>
    /\ UNCHANGED <<lostReport, tally>>
    /\ UNCHANGED hubVars

\* 3) http.POST(fb->buf, fb->len), lines 102-111
captureUpload ==
    /\ pc = "upload"
    /\ \E code \in HttpCodes :
         /\ httpOk' = HttpOk(code)
         /\ trace' = Append(trace, HttpPost(fb, code))
    /\ pc' = "finish"
    /\ UNCHANGED <<triggerMqttCapture, triggerWebCapture, connected, elapsed,
                   latest, httpPending, delivered, connLog, httpResp, doUpload, fb,
                   fsOk, ok, webInflight, att>>
    /\ UNCHANGED <<lostReport, tally>>
    /\ UNCHANGED hubVars

\* mutant: the frame buffer goes back to the driver after a success only
captureFinish_KeepsFrameOnFailure ==
    /\ pc = "finish"
    /\ fb' = IF fsOk /\ httpOk THEN NoFrame ELSE fb
    /\ trace' = trace \o (IF fsOk /\ httpOk THEN <<FbReturn>> ELSE <<>>)
                  \o (IF UrlAnnounced(fsOk) THEN <<publishUrl(connected)>> ELSE <<>>)
    /\ ok' = CaptureResult(fsOk, httpOk)
    /\ pc' = "report"
    /\ UNCHANGED <<triggerMqttCapture, triggerWebCapture, connected, elapsed,
                   latest, httpPending, delivered, connLog, httpResp, doUpload,
                   fsOk, httpOk, webInflight, att>>
    /\ UNCHANGED <<lostReport, tally>>
    /\ UNCHANGED hubVars

\* 4) esp_camera_fb_return, 5) publishUrl if fsOk, return, lines 114-121
captureFinish ==
    /\ pc = "finish"
    /\ fb' = NoFrame
    /\ trace' = trace \o <<FbReturn>>
                  \o (IF UrlAnnounced(fsOk) THEN <<publishUrl(connected)>> ELSE <<>>)
    /\ ok' = CaptureResult(fsOk, httpOk)
    /\ pc' = "report"
    /\ UNCHANGED <<triggerMqttCapture, triggerWebCapture, connected, elapsed,
                   latest, httpPending, delivered, connLog, httpResp, doUpload,
                   fsOk, httpOk, webInflight, att>>
    /\ UNCHANGED <<lostReport, tally>>
    /\ UNCHANGED hubVars

\* loop(), lines 315-317: the outcome report
loopReport ==
    /\ pc = "report"
    /\ trace' = IF ReportWanted(doUpload)
                THEN Append(trace,
                       Publish(topic_stat, ReportPayload(ok), FALSE, connected))
                ELSE trace
    /\ lostReport' = IF ReportWanted(doUpload) THEN ~connected ELSE lostReport
    /\ tally' = IF tally.on /\ ReportWanted(doUpload) /\ tally.reports < MaxAccepted
                THEN [tally EXCEPT !.reports = @ + 1]
                ELSE tally
    /\ att' = [att EXCEPT !.done = TRUE]
    /\ pc' = "handleClient"
    /\ UNCHANGED <<triggerMqttCapture, triggerWebCapture, connected, elapsed,
                   latest, httpPending, delivered, connLog, httpResp, doUpload, fb,
                   fsOk, httpOk, ok, webInflight>>
    /\ UNCHANGED hubVars

----------------------------------------------------------------------------

Next ==
    \/ WebRequestArrives
    \/ Disconnect
    \/ Tick
    \/ handleClientIdle
    \/ handleRoot
    \/ handleCapture
    \/ handleLatest
    \/ ensureMqtt
    \/ mqttDeliver
    \/ mqttLoopReturn
    \/ loopNoCapture
    \/ loopStartCapture
    \/ captureAcquire
    \/ capturePersist
    \/ captureUpload
    \/ captureFinish
    \/ loopReport

\* Callbacks run only inside server.handleClient() and mqtt.loop().
Spec == Init /\ [][Next]_vars

----------------------------------------------------------------------------
(* Reading the record of the current attempt *)

Calls(op) == {i \in 1..Len(trace) : trace[i].op = op}

\* calls of mqtt.publish on the status topic by loop(): the outcome reports
Reports ==
    {i \in 1..Len(trace) : trace[i].op = "publish" /\ trace[i].topic = topic_stat}

\* calls of publishUrl(): the retrieval-address announcements
UrlAnnouncements ==
    {i \in 1..Len(trace) : trace[i].op = "publish" /\ trace[i].topic = topic_url}

ReportIs(status) ==
    \E i \in Reports : trace[i].payload.status = status

FrameAcquired == \E i \in Calls("fb_get") : trace[i].ok

AcquisitionFailed == \E i \in Calls("fb_get") : ~trace[i].ok

Stored == \E i \in Calls("fs_write") : trace[i].full

PersistFailed == \E i \in Calls("fs_write") : ~trace[i].full

PostAnswered(code) == \E i \in Calls("post") : trace[i].code = code

\* a network-triggered attempt: the loop saw triggerMqttCapture set
NetworkAttempt == att.started /\ att.mqtt

\* a capture started by the web request alone
LocalAttempt == att.started /\ att.web /\ ~att.mqtt

----------------------------------------------------------------------------
(* C1 *)

\* C1 as stated: a network-triggered attempt whose frame was acquired and whose
\* upload was answered with 200 is reported 'captured', whatever the local
\* write did.
C1_ReportedCapturedOn200 ==
    (att.done /\ NetworkAttempt /\ FrameAcquired /\ PostAnswered(200))
        => ReportIs("captured")

\* C1, amended: a network-triggered attempt whose frame was acquired and whose
\* upload was answered with 200 is reported 'captured' if the frame was written
\* completely to /latest.jpg, and 'capture_failed' if the local write failed.
C1_ReportFollowsWriteAndUpload ==
    (att.done /\ NetworkAttempt /\ FrameAcquired /\ PostAnswered(200))
        => /\ Cardinality(Reports) = 1
           /\ Stored => ReportIs("captured")
           /\ ~Stored => ReportIs("capture_failed")

C1_Witness ==
    /\ att.done /\ NetworkAttempt /\ FrameAcquired /\ PostAnswered(200)
    /\ Stored
    /\ ReportIs("captured")

----------------------------------------------------------------------------
(* C2 *)

\* C2: a network-triggered attempt whose upload was answered with anything but
\* 200 (a negative transport error included) is reported 'capture_failed', and
\* no 'captured' report is ever published without an upload answered with 200
\* before it in the same attempt.
C2_FailedUploadReportedFailed ==
    /\ (att.done /\ NetworkAttempt
            /\ \E i \in Calls("post") : trace[i].code # 200)
         => /\ Cardinality(Reports) = 1
            /\ ReportIs("capture_failed")
            /\ ~ReportIs("captured")
    /\ \A i \in Reports :
         trace[i].payload.status = "captured"
            => \E j \in Calls("post") : j < i /\ trace[j].code = 200

C2_Witness ==
    /\ att.done /\ NetworkAttempt
    /\ PostAnswered(-1)
    /\ ReportIs("capture_failed")

----------------------------------------------------------------------------
(* C3 *)

\* C3: when esp_camera_fb_get fails in a network-triggered attempt, the attempt
\* consists of that one call and, on return to loop(), one publish of
\* 'capture_failed': no write, no upload, no address announcement, no second
\* acquisition; both flags are false afterwards, so nothing is captured again
\* before a handler sets a flag.
C3_AcquireFailureGoesToReport ==
    (NetworkAttempt /\ AcquisitionFailed)
        => /\ pc \in {"report", "handleClient"}
           /\ Cardinality(Calls("fb_get")) = 1
           /\ Calls("fs_write") = {}
           /\ Calls("post") = {}
           /\ UrlAnnouncements = {}
           /\ ~triggerMqttCapture /\ ~triggerWebCapture
           /\ fb = NoFrame
           /\ att.done <=> pc = "handleClient"
           /\ ~att.done => Reports = {}
           /\ att.done => /\ Len(trace) = 2
                          /\ Reports = {2}
                          /\ trace[2].payload.status = "capture_failed"

C3_Witness ==
    /\ att.done /\ NetworkAttempt /\ AcquisitionFailed
    /\ ReportIs("capture_failed")

----------------------------------------------------------------------------
(* C4 *)

\* C4: when the local write fails (the file cannot be opened, or fewer bytes
\* are written than the frame holds) in a network-triggered attempt, the frame
\* is still posted once, after the write, and one outcome report is still
\* published.
C4_PersistFailureDoesNotBlock ==
    /\ (NetworkAttempt /\ PersistFailed)
         => pc \in {"upload", "finish", "report", "handleClient"}
    /\ (NetworkAttempt /\ PersistFailed /\ pc \in {"finish", "report", "handleClient"})
         => /\ Cardinality(Calls("post")) = 1
            /\ \A i \in Calls("fs_write") : \A j \in Calls("post") : i < j
    /\ (att.done /\ NetworkAttempt /\ PersistFailed)
         => Cardinality(Reports) = 1

C4_Witness ==
    /\ att.done /\ NetworkAttempt
    /\ \E i \in Calls("fs_write") : ~trace[i].opened
    /\ Cardinality(Calls("post")) = 1
    /\ Cardinality(Reports) = 1

----------------------------------------------------------------------------
(* C5 *)

\* C5: when both flags are set as the loop examines them, one attempt is made
\* for both: it runs with doUpload (the frame, once acquired, is posted once),
\* the camera is asked for a frame once, one outcome report is published, and
\* both flags are false from the examination on, so no second capture follows
\* from the two requests.
C5_BothPendingCoalesced ==
    (att.started /\ att.mqtt /\ att.web)
        => /\ ~triggerMqttCapture /\ ~triggerWebCapture
           /\ Cardinality(Calls("fb_get")) <= 1
           /\ ~att.done => doUpload
           /\ att.done =>
                /\ Cardinality(Calls("fb_get")) = 1
                /\ Cardinality(Calls("post")) = (IF FrameAcquired THEN 1 ELSE 0)
                /\ Cardinality(Reports) = 1

C5_Witness ==
    /\ att.done /\ att.mqtt /\ att.web
    /\ Cardinality(Calls("post")) = 1
    /\ Cardinality(Reports) = 1

----------------------------------------------------------------------------
(* C6 *)

\* a capture started by nothing but a web request that reached the node while
\* a network-triggered attempt was capturing, persisting or uploading
DeferredLocalAttempt == att.started /\ att.inflight /\ ~att.mqtt

\* C6 as stated: a web request that arrives while a network-triggered attempt
\* is capturing, persisting or uploading is dropped: it causes no acquisition,
\* no write of /latest.jpg, no address announcement and no outcome report.
C6_InflightRequestDropped ==
    DeferredLocalAttempt
        => /\ Calls("fb_get") = {}
           /\ Calls("fs_write") = {}
           /\ UrlAnnouncements = {}
           /\ Reports = {}

\* C6, amended: such a request is not dropped.  It waits until the attempt in
\* flight has finished, is then served by handleCapture and causes one local
\* capture: one acquisition, at most one write of /latest.jpg, and the address
\* announced again exactly when the frame was written completely; it causes no
\* upload and no outcome report.
C6_InflightRequestServedLocally ==
    DeferredLocalAttempt
        => /\ ~doUpload
           /\ Calls("post") = {}
           /\ Reports = {}
           /\ Cardinality(Calls("fb_get")) <= 1
           /\ Cardinality(Calls("fs_write")) <= 1
           /\ att.done =>
                /\ Cardinality(Calls("fb_get")) = 1
                /\ FrameAcquired => Cardinality(Calls("fs_write")) = 1
                /\ Cardinality(UrlAnnouncements) = (IF Stored THEN 1 ELSE 0)

C6_Witness ==
    /\ att.done /\ DeferredLocalAttempt
    /\ Stored
    /\ Cardinality(UrlAnnouncements) = 1

----------------------------------------------------------------------------
(* C7 *)

\* C7: a capture started by the web request alone never posts the frame and
\* never publishes on the status topic, whether it succeeds or fails.
C7_LocalCaptureOutsideAccounting ==
    LocalAttempt
        => /\ ~doUpload
           /\ Calls("post") = {}
           /\ Reports = {}
           /\ pc # "upload"

C7_Witness ==
    /\ att.done /\ LocalAttempt
    /\ FrameAcquired

----------------------------------------------------------------------------
(* C8 *)

ReportFields == {"node_id", "session_id", "attempt", "status"}

\* C8 as stated: every outcome report carries node_id, session_id, attempt and
\* status.
C8_ReportCarriesAttribution ==
    \A i \in Reports : DOMAIN trace[i].payload = ReportFields

\* C8, amended: every outcome report carries the status alone, 'captured' or
\* 'capture_failed', published unretained on the status topic shared by all
\* nodes; it names no node, no session and no attempt.
C8_ReportCarriesStatusOnly ==
    \A i \in Reports :
        /\ DOMAIN trace[i].payload = {"status"}
        /\ trace[i].payload.status \in {"captured", "capture_failed"}
        /\ ~trace[i].retained

C8_Witness ==
    /\ att.done /\ NetworkAttempt
    /\ Reports # {}

----------------------------------------------------------------------------
(* C9 *)

\* the payloads of Payloads that are the bare directive, in any letter case
\* and with white space around it
PlainDirectives ==
    { <<99, 97, 112, 116, 117, 114, 101>>,
      <<67, 65, 80, 84, 85, 82, 69>>,
      <<32, 67, 97, 112, 116, 117, 114, 101, 10>> }

DeliveredOnCmd(payloads) ==
    \E i \in 1..Len(delivered) :
        delivered[i].topic = topic_cmd /\ delivered[i].payload \in payloads

\* C9 as stated: a trigger message on the command topic whose payload is the
\* directive plus a session_id is honoured: once mqtt.loop() has handed it to
\* the callback, the network flag is set.
C9_SessionTriggerHonoured ==
    (pc = "checkFlags" /\ DeliveredOnCmd(SessionPayloads)) => triggerMqttCapture

\* C9, amended: a message on the command topic is honoured exactly when its
\* payload is the bare directive (letter case and surrounding white space
\* ignored); a payload that carries a session_id as well is ignored.  A honoured
\* trigger starts one attempt with one acquisition, and neither the upload nor
\* the outcome report of the attempt carries a session_id.
C9_BareDirectiveHonoured ==
    /\ pc = "checkFlags"
         => (triggerMqttCapture <=> DeliveredOnCmd(PlainDirectives))
    /\ NetworkAttempt
         => /\ Cardinality(Calls("fb_get")) <= 1
            /\ att.done => Cardinality(Calls("fb_get")) = 1
            /\ \A i \in Calls("post") :
                 /\ trace[i].url = serverUrl
                 /\ "session_id" \notin DOMAIN trace[i]
            /\ \A i \in Reports : "session_id" \notin DOMAIN trace[i].payload

C9_Witness ==
    /\ att.done /\ NetworkAttempt /\ ~att.web
    /\ Calls("post") # {}
    /\ Reports # {}

----------------------------------------------------------------------------
(* C10 *)

\* C10: a network-triggered attempt whose outcome report is 'captured' has
\* called publishUrl() once and published the report once, the address first.
C10_AddressBeforeReport ==
    (att.done /\ NetworkAttempt /\ ReportIs("captured"))
        => /\ Cardinality(UrlAnnouncements) = 1
           /\ Cardinality(Reports) = 1
           /\ \A i \in UrlAnnouncements : \A j \in Reports : i < j

C10_Witness ==
    /\ att.done /\ NetworkAttempt /\ ReportIs("captured")
    /\ UrlAnnouncements = {Len(trace) - 1}
    /\ Reports = {Len(trace)}

----------------------------------------------------------------------------
(* C11: every time ensureMqtt() establishes the connection it publishes the
   retained 'online' status, subscribes to the command topic and publishes
   the retained retrieval address, in that order and nothing else; a call of
   ensureMqtt() publishes no outcome report and adds nothing to the current
   attempt, so a report that was published while disconnected stays
   undelivered: only the report of a later attempt replaces it. *)

OutcomeStatuses == {"captured", "capture_failed"}

IsOutcomeReport(call) ==
    /\ call.op = "publish"
    /\ call.topic = topic_stat
    /\ call.payload.status \in OutcomeStatuses

C11_ReconnectAnnouncesWithoutReplay ==
    [][ /\ (~connected /\ connected') =>
              /\ pc = "ensureMqtt"
              /\ SubSeq(connLog', 2, Len(connLog')) =
                   << [op |-> "publish", topic |-> topic_stat,
                       payload |-> [status |-> "online"],
                       retained |-> TRUE, sent |-> TRUE],
                      [op |-> "subscribe", topic |-> topic_cmd],
                      [op |-> "publish", topic |-> topic_url,
                       payload |-> [url |-> "http://<localIP>/latest.jpg"],
                       retained |-> TRUE, sent |-> TRUE] >>
        /\ (pc = "ensureMqtt") =>
              /\ \A i \in 1..Len(connLog') : ~IsOutcomeReport(connLog'[i])
              /\ trace' = trace
              /\ lostReport' = lostReport
        /\ (lostReport /\ ~lostReport') =>
              /\ pc = "report"
              /\ doUpload /\ connected
      ]_vars

\* the connection comes back after an outcome report was lost
C11_Witness ==
    /\ pc = "mqttLoop"
    /\ lostReport
    /\ connected
    /\ connLog # <<>>

----------------------------------------------------------------------------
(* The loop under its scheduling: loop() is called again and again and every
   call it makes returns, so the step the loop is at is eventually taken;
   millis() advances. *)

LoopStep ==
    \/ handleClientIdle
    \/ handleRoot
    \/ handleCapture
    \/ handleLatest
    \/ ensureMqtt
    \/ mqttDeliver
    \/ mqttLoopReturn
    \/ loopNoCapture
    \/ loopStartCapture
    \/ captureAcquire
    \/ capturePersist
    \/ captureUpload
    \/ captureFinish
    \/ loopReport

FairSpec == Spec /\ WF_vars(LoopStep) /\ WF_vars(Tick)

----------------------------------------------------------------------------
(* The loop under the hypothesis that the MQTT callback and the web handler
   may run between any two statements of loop(): lines 305-308 are then four
   steps (test the flags, read doUpload, clear triggerMqttCapture, clear
   triggerWebCapture), and the callback or the handler may run before or
   after each of them. *)

\* line 305, the test succeeds
loopTestFlags ==
    /\ pc = "checkFlags"
    /\ CaptureRequested(triggerMqttCapture, triggerWebCapture)
    /\ pc' = "readDoUpload"
    /\ UNCHANGED <<triggerMqttCapture, triggerWebCapture, connected, elapsed,
                   latest, httpPending, delivered, connLog, httpResp, doUpload, fb,
                   fsOk, httpOk, ok, webInflight, att, trace, lostReport, tally>>
    /\ UNCHANGED hubVars

\* line 306: bool doUpload = triggerMqttCapture;
loopReadDoUpload ==
    /\ pc = "readDoUpload"
    /\ doUpload' = DoUpload(triggerMqttCapture, triggerWebCapture)
    /\ pc' = "clearMqtt"
    /\ UNCHANGED <<triggerMqttCapture, triggerWebCapture, connected, elapsed,
                   latest, httpPending, delivered, connLog, httpResp, fb, fsOk,
                   httpOk, ok, webInflight, att, trace, lostReport, tally>>
    /\ UNCHANGED hubVars

\* line 307: triggerMqttCapture = false;
loopClearMqtt ==
    /\ pc = "clearMqtt"
    /\ triggerMqttCapture' = MqttFlagAfterExam(triggerMqttCapture, triggerWebCapture)
    /\ att' = [att EXCEPT !.mqtt = triggerMqttCapture]
    /\ pc' = "clearWeb"
    /\ UNCHANGED <<triggerWebCapture, connected, elapsed, latest, httpPending,
                   delivered, connLog, httpResp, doUpload, fb, fsOk, httpOk, ok,
                   webInflight, trace, lostReport, tally>>
    /\ UNCHANGED hubVars

\* line 308: triggerWebCapture = false;
loopClearWeb ==
    /\ pc = "clearWeb"
    /\ triggerWebCapture' = WebFlagAfterExam(triggerMqttCapture, triggerWebCapture)
    /\ att' = [att EXCEPT !.started = TRUE, !.web = triggerWebCapture]
    /\ pc' = "acquire"
    /\ UNCHANGED <<triggerMqttCapture, connected, elapsed, latest, httpPending,
                   delivered, connLog, httpResp, doUpload, fb, fsOk, httpOk, ok,
                   webInflight, trace, lostReport, tally>>
    /\ UNCHANGED hubVars

\* mqttCallback (lines 154-166) runs between two statements of the loop;
\* att.late records that it set the flag after line 306 and before line 307
mqttCallbackPreempts ==
    /\ connected
    /\ \E msg \in Messages :
         /\ triggerMqttCapture' = mqttCallback(triggerMqttCapture, msg)
         /\ att' = IF pc = "clearMqtt" /\ ~triggerMqttCapture /\ triggerMqttCapture'
                   THEN [att EXCEPT !.late = TRUE]
                   ELSE att
    /\ UNCHANGED <<pc, triggerWebCapture, connected, elapsed, latest, httpPending,
                   delivered, connLog, httpResp, doUpload, fb, fsOk, httpOk, ok,
                   webInflight, trace, lostReport, tally>>
    /\ UNCHANGED hubVars

\* handleCapture (lines 136-141) runs between two statements of the loop
handleCapturePreempts ==
    /\ triggerWebCapture' = TRUE
    /\ UNCHANGED <<pc, triggerMqttCapture, connected, elapsed, latest, httpPending,
                   delivered, connLog, httpResp, doUpload, fb, fsOk, httpOk, ok,
                   webInflight, att, trace, lostReport, tally>>
    /\ UNCHANGED hubVars

PreemptNext ==
    \/ handleClientIdle
    \/ ensureMqtt
    \/ mqttLoopReturn
    \/ loopNoCapture
    \/ loopTestFlags
    \/ loopReadDoUpload
    \/ loopClearMqtt
    \/ loopClearWeb
    \/ captureAcquire
    \/ capturePersist
    \/ captureUpload
    \/ captureFinish
    \/ loopReport
    \/ mqttCallbackPreempts
    \/ handleCapturePreempts

PreemptSpec == Init /\ [][PreemptNext]_vars

----------------------------------------------------------------------------
(* The coordinator on its own: the node is at rest *)

HubInit == Init /\ ~connected /\ elapsed = 0 /\ latest = "absent"

HubSpec == HubInit /\ [][HubNext]_vars

----------------------------------------------------------------------------
(* C12: a call of ensureMqtt() always returns to the loop after at most one
   connection attempt; it attempts exactly when the client is disconnected
   and at least 3000 ms have passed since the last attempt, so no two
   attempts are less than 3000 ms apart; nothing else connects; and while
   the client is disconnected a further attempt always follows. *)

ConnectCalls == {i \in 1..Len(connLog) : connLog[i].op = "connect"}

\* the step of the loop that runs ensureMqtt()
EnsureMqttStep == pc = "ensureMqtt" /\ pc' # pc

EnsureMqttReturnsAfterOneAttempt ==
    /\ pc' = "mqttLoop"
    /\ Cardinality(ConnectCalls') <= 1
    /\ (ConnectCalls' # {}) <=> (~connected /\ elapsed >= RetryIntervalMs)
    /\ (ConnectCalls' # {}) => (elapsed' = 0)
    /\ (ConnectCalls' = {}) => (connected' = connected /\ elapsed' = elapsed)

NothingElseConnects ==
    /\ ConnectCalls' \subseteq ConnectCalls
    /\ ~(~connected /\ connected')

C12_OneAttemptPerWindowUntilConnected ==
    /\ [][IF EnsureMqttStep
          THEN EnsureMqttReturnsAfterOneAttempt
          ELSE NothingElseConnects]_vars
    /\ (~connected) ~> (connected \/ ConnectCalls # {})

\* a call that came too early returned without attempting, and the loop went on
C12_Witness ==
    /\ ~connected
    /\ elapsed > 0 /\ elapsed < RetryIntervalMs
    /\ pc = "mqttLoop"
    /\ connLog = <<>>

----------------------------------------------------------------------------
(* C13: within one network-triggered attempt the frame is acquired before
   the upload request is made, and the upload request has been answered
   before the outcome report is published: the report is the last call of
   the attempt, it comes after captureAndSend() has returned the frame
   buffer, and no report exists while the attempt is still acquiring,
   persisting, uploading or finishing. *)

C13_AcquireThenUploadThenReport ==
    NetworkAttempt =>
        /\ \A p \in Calls("post") :
              \E g \in Calls("fb_get") : g < p /\ trace[g].ok
        /\ \A r \in Reports :
              /\ r = Len(trace)
              /\ \A c \in Calls("fb_get") \cup Calls("fs_write") \cup Calls("post") :
                    c < r
              /\ FrameAcquired => \E b \in Calls("fb_return") : b < r
              /\ fb = NoFrame
              /\ att.done
        /\ (pc \in Stages) => Reports = {}

\* a finished network attempt whose upload was answered with an error
C13_Witness ==
    /\ NetworkAttempt
    /\ att.done
    /\ \E p \in Calls("post") : \E r \in Reports :
          p < r /\ trace[p].code = 500

----------------------------------------------------------------------------
(* C14: under the loop's cooperative scheduling, with the sensor call, the
   file write and the HTTP call each returning, every capture command the
   callback accepted (triggerMqttCapture set) is eventually followed by one
   finished capture attempt in upload mode with one outcome-report publish,
   after which the node is idle: back at the top of loop(), no frame buffer
   held, both trigger flags false. *)

ServedAndIdle ==
    /\ pc = "handleClient"
    /\ att.done /\ NetworkAttempt
    /\ doUpload
    /\ Cardinality(Calls("fb_get")) = 1
    /\ Cardinality(Reports) = 1
    /\ fb = NoFrame
    /\ ~triggerMqttCapture /\ ~triggerWebCapture

C14_AcceptedCommandEventuallyServed ==
    triggerMqttCapture ~> ServedAndIdle

\* a command alone was served: frame acquired, uploaded, reported, node idle
C14_Witness ==
    /\ ServedAndIdle
    /\ ~att.web
    /\ FrameAcquired
    /\ Calls("post") # {}

----------------------------------------------------------------------------
(* Reading the coordinator's records *)

Known == DOMAIN sessions

FinalizedSessions == {s \in Known : sessions[s].verdict # "pending"}

StatusOf(s, n) == sessions[s].node_states[n]

ImagesOf(s, n) == {k \in store : k[1] = s /\ k[2] = n}

BroadcastTriggers(published) == {t \in published : t.attempt = 1}

----------------------------------------------------------------------------
(* C15: a session's verdict leaves 'pending' at most once: once it is
   complete, degraded or failed, no step (a duplicate terminal report, an
   image_arrived event, the deadline firing, a late report, a retry) changes
   the verdict or any other field of the session record. *)

C15_FinalizedSessionNeverChanges ==
    [][\A s \in FinalizedSessions :
          /\ s \in DOMAIN sessions'
          /\ sessions'[s] = sessions[s]]_vars

\* an upload for a session that is already finalized was received
C15_Witness ==
    \E k \in orphans :
        /\ k[1] \in FinalizedSessions
        /\ k[2] \in sessions[k[1]].expected_nodes

----------------------------------------------------------------------------
(* C16: once a node's state for an attempt is uploaded, failed or timed_out,
   no step changes the node's record while it is in that attempt: duplicate
   or out-of-order reports and image_arrived events for the attempt leave it
   as it is.  A terminal state is left only for a new attempt, with
   attempt_count one higher, and attempt_count never decreases. *)

C16_TerminalAttemptNeverRegresses ==
    [][\A s \in Known : \A n \in sessions[s].expected_nodes :
          /\ sessions'[s].node_states[n].attempt_count >= StatusOf(s, n).attempt_count
          /\ IsTerminal(StatusOf(s, n).state) =>
                \/ sessions'[s].node_states[n] = StatusOf(s, n)
                \/ sessions'[s].node_states[n].attempt_count
                      = StatusOf(s, n).attempt_count + 1]_vars

\* a node is terminal in a session that still applies events, and its image is stored
C16_Witness ==
    \E s \in Pending : \E n \in sessions[s].expected_nodes :
        /\ StatusOf(s, n).state = "uploaded"
        /\ ImageKey(s, n, StatusOf(s, n).attempt_count) \in store
        /\ ~AllTerminal(sessions[s])

----------------------------------------------------------------------------
(* C17: at most one session is pending at any time; while one is pending no
   session is allocated and no session trigger is published, and a
   start_session call returns SessionBusy and leaves the sessions (roster,
   deadline, node states) and the published triggers unchanged. *)

C17_StartWhilePendingIsBusy ==
    /\ [](Cardinality(Pending) <= 1)
    /\ [][(Pending # {}) =>
            /\ Len(sessions') = Len(sessions)
            /\ BroadcastTriggers(triggers') = BroadcastTriggers(triggers)
            /\ (lastResult' # lastResult) =>
                  /\ lastResult'.error = "SessionBusy"
                  /\ sessions' = sessions
                  /\ triggers' = triggers]_vars

\* start_session was refused while a session is pending
C17_Witness ==
    /\ lastResult.error = "SessionBusy"
    /\ Pending # {}
    /\ Cardinality(BroadcastTriggers(triggers)) = Len(sessions)

----------------------------------------------------------------------------
(* C18: a session does not stay pending past its deadline; the step that
   finalizes it leaves every terminal node as it is and marks every other
   expected node timed_out (which happens only at the deadline), and sets
   the verdict: complete if every expected node is uploaded, degraded if at
   least one but not all are, failed if none is. *)

VerdictMatchesCounts(session) ==
    /\ session.verdict \in {"complete", "degraded", "failed"}
    /\ (session.verdict = "complete") <=>
          (\A n \in session.expected_nodes :
              session.node_states[n].state = "uploaded")
    /\ (session.verdict = "failed") <=>
          (\A n \in session.expected_nodes :
              session.node_states[n].state # "uploaded")

C18_DeadlineFinalizesWithVerdict ==
    /\ [](\A s \in Pending : now <= sessions[s].deadline)
    /\ [](\A s \in FinalizedSessions :
            AllTerminal(sessions[s]) /\ VerdictMatchesCounts(sessions[s]))
    /\ [][\A s \in Pending :
            (sessions'[s].verdict # "pending") =>
               /\ sessions'[s].expected_nodes = sessions[s].expected_nodes
               /\ \A n \in sessions[s].expected_nodes :
                     IF IsTerminal(StatusOf(s, n).state)
                     THEN sessions'[s].node_states[n] = StatusOf(s, n)
                     ELSE /\ now >= sessions[s].deadline
                          /\ sessions'[s].node_states[n] =
                                [StatusOf(s, n) EXCEPT !.state = "timed_out"]]_vars

\* some nodes uploaded, a silent one was timed out: the verdict is degraded
C18_Witness ==
    \E s \in FinalizedSessions :
        /\ sessions[s].verdict = "degraded"
        /\ \E n \in sessions[s].expected_nodes :
              /\ StatusOf(s, n).state = "timed_out"
              /\ ImagesOf(s, n) = {}
        /\ \E n \in sessions[s].expected_nodes : StatusOf(s, n).state = "uploaded"

----------------------------------------------------------------------------
(* C19: attempt_count never exceeds max_attempts; a node is triggered again
   only while its session is pending, before the deadline, when its state is
   failed, and the retry touches no other node and publishes one trigger
   addressed to that node alone; a node that failed its first attempt and
   uploaded in its second is uploaded, counts as a success in the verdict,
   and has exactly one stored image, that of the second attempt. *)

----------------------------------------------------------------------------
(* C20: if the callback and the handler may run between any two statements
   of loop(), a network trigger is lost in one window only: a trigger whose
   flag is set after the loop has read doUpload as false (line 306) and
   before it clears the flag (line 307) is cleared by an attempt that runs
   without upload and publishes no outcome report.  Every other trigger the
   loop clears belongs to an attempt that runs in upload mode and publishes
   one outcome report; and the flag is cleared by line 307 only. *)

\* as stated: every network trigger the loop clears gets its upload and its report
C20_NoNetworkTriggerLost ==
    NetworkAttempt =>
        /\ doUpload
        /\ att.done => Reports # {}

C20_TriggerLostOnlyInWindow ==
    /\ [](NetworkAttempt =>
            /\ doUpload \/ att.late
            /\ doUpload =>
                  /\ att.done => Cardinality(Reports) = 1
                  /\ (att.done /\ FrameAcquired /\ Stored) => Calls("post") # {}
            /\ ~doUpload =>
                  /\ att.web
                  /\ Calls("post") = {}
                  /\ Reports = {})
    /\ [][(triggerMqttCapture /\ ~triggerMqttCapture') => pc = "clearMqtt"]_vars

\* a trigger set in the window was cleared; the attempt ended without upload or report
C20_Witness ==
    /\ NetworkAttempt
    /\ att.late
    /\ ~doUpload
    /\ att.done
    /\ FrameAcquired
    /\ ~triggerMqttCapture

----------------------------------------------------------------------------
(* C21: a run of mqttCallback sets triggerMqttCapture if and only if the
   topic is the command topic and the payload is the word 'capture' in any
   letter case with whitespace around it only; on every other message the
   flag keeps its value.  The callback changes nothing else: the web flag,
   the frame buffer, the stored file, the connection and the record of
   camera, file and network calls stay as they were. *)

\* the payloads of the model that read 'capture' after trim and lower-casing
AcceptedPayloads ==
    { <<99, 97, 112, 116, 117, 114, 101>>,               \* "capture"
      <<67, 65, 80, 84, 85, 82, 69>>,                     \* "CAPTURE"
      <<32, 67, 97, 112, 116, 117, 114, 101, 10>> }       \* " Capture\n"

CallbackRan == Len(delivered') = Len(delivered) + 1

C21_CallbackSetsFlagOnlyOnCapture ==
    [][CallbackRan =>
         /\ (triggerMqttCapture' /\ ~triggerMqttCapture) <=>
               /\ ~triggerMqttCapture
               /\ delivered'[Len(delivered')].topic = topic_cmd
               /\ delivered'[Len(delivered')].payload \in AcceptedPayloads
         /\ triggerMqttCapture => triggerMqttCapture'
         /\ UNCHANGED <<pc, triggerWebCapture, connected, elapsed, latest,
                        httpPending, connLog, httpResp, doUpload, fb, fsOk,
                        httpOk, ok, webInflight, att, trace, lostReport, tally>>]_vars

\* the callback ran on a message it does not accept and on nothing else
C21_Witness ==
    /\ pc = "mqttLoop"
    /\ delivered # <<>>
    /\ \A i \in 1..Len(delivered) :
          delivered[i].topic # topic_cmd
          \/ delivered[i].payload \notin AcceptedPayloads
    /\ ~triggerMqttCapture

----------------------------------------------------------------------------
(* C22: after any capture, network-triggered or local, captureAndSend has
   called publishUrl() exactly once, retained, if the frame was acquired and
   written completely to /latest.jpg, and not at all otherwise, whether or
   not an upload was attempted and whatever its answer was. *)

AnnouncedOnceRetained ==
    /\ Cardinality(UrlAnnouncements) = 1
    /\ \A i \in UrlAnnouncements : trace[i].retained

C22_AddressAnnouncedIffStored ==
    att.done =>
        IF FrameAcquired /\ Stored
        THEN AnnouncedOnceRetained
        ELSE UrlAnnouncements = {}

\* an attempt reported 'capture_failed' because the upload failed, with the
\* address announced
C22_Witness ==
    /\ att.done /\ NetworkAttempt
    /\ FrameAcquired /\ Stored
    /\ \E i \in Calls("post") : trace[i].code # HttpOkCode
    /\ ReportIs("capture_failed")
    /\ AnnouncedOnceRetained

\* a local capture, with no upload, and the address announced
C22_LocalCaptureAnnounced ==
    /\ att.done /\ LocalAttempt
    /\ Calls("post") = {}
    /\ AnnouncedOnceRetained

----------------------------------------------------------------------------
(* C23: in any run of commands, web requests, disconnects and reconnects,
   the number of outcome reports loop() has published equals the number of
   loop iterations that started a capture with triggerMqttCapture set, the
   capture still running excepted, and that number never exceeds the number
   of capture commands mqttCallback accepted: commands accepted before
   line 305 examines the flag are served by one capture and one report. *)

\* the same firmware, with the counts kept
CountInit ==
    /\ NodeStart
    /\ tally = [on |-> TRUE, accepted |-> 0, captures |-> 0, reports |-> 0]

CountSpec == CountInit /\ [][Next]_vars

\* a capture started with the network flag set has not reported yet
NetworkCaptureRunning == pc \in Stages /\ att.mqtt

Unreported == IF NetworkCaptureRunning THEN 1 ELSE 0

\* the flag is set: a command is waiting for line 305
Unexamined == IF triggerMqttCapture THEN 1 ELSE 0

C23_OneReportPerNetworkCapture ==
    tally.on =>
        /\ tally.reports + Unreported = tally.captures
        /\ tally.captures + Unexamined <= tally.accepted

\* two commands were accepted by one mqtt.loop() call and served by one
\* capture and one report
C23_Witness ==
    /\ tally.on
    /\ tally.accepted = 2
    /\ tally.captures = 1
    /\ tally.reports = 1
    /\ ~triggerMqttCapture
    /\ att.done /\ NetworkAttempt
    /\ Cardinality(Reports) = 1

----------------------------------------------------------------------------
(* C24: at every moment at most one acquisition is in progress and at most
   one frame buffer is held.  handleCapture and mqttCallback only set their
   flag; the camera is called from captureAndSend alone, which loop() calls;
   a frame buffer that esp_camera_fb_get() handed out is given back exactly
   once before captureAndSend returns, whether the local write failed, the
   upload failed or both succeeded. *)

\* frame buffers handed out by the driver and not given back yet
FramesHeld ==
    Cardinality({i \in Calls("fb_get") : trace[i].ok})
        - Cardinality(Calls("fb_return"))

\* the statements of captureAndSend between fb_get and fb_return
HoldingStages == {"persist", "upload", "finish"}

OneFrameAtATime ==
    /\ Cardinality(Calls("fb_get")) <= 1
    /\ FramesHeld = (IF fb # NoFrame THEN 1 ELSE 0)
    /\ fb # NoFrame => pc \in HoldingStages
    /\ pc \in HoldingStages => fb # NoFrame

\* captureAndSend has returned
ReturnedFrameOnce ==
    (pc = "report" \/ att.done) =>
        /\ fb = NoFrame
        /\ Cardinality(Calls("fb_return")) = (IF FrameAcquired THEN 1 ELSE 0)

CameraCalled ==
    \/ fb' # fb
    \/ Len(trace') > Len(trace) /\ trace'[Len(trace) + 1].op \in {"fb_get", "fb_return"}

\* a step of a web handler or of the callback
HandlerStep ==
    \/ pc = "handleClient" /\ pc' = "ensureMqtt"
    \/ CallbackRan

OnlyTheLoopCaptures ==
    /\ CameraCalled => pc \in {"acquire", "finish"}
    /\ HandlerStep => UNCHANGED <<fb, latest>>
    /\ HandlerStep => (trace' = trace \/ trace' = <<>>)

C24_OneCaptureOneFrame ==
    /\ [](OneFrameAtATime /\ ReturnedFrameOnce)
    /\ [][OnlyTheLoopCaptures]_vars

\* the three paths: the local write failed, the upload failed, both succeeded
C24_PersistFailedPath ==
    /\ att.done /\ FrameAcquired /\ PersistFailed
    /\ Cardinality(Calls("fb_return")) = 1

C24_Witness ==
    /\ att.done /\ NetworkAttempt
    /\ FrameAcquired /\ Stored
    /\ \E i \in Calls("post") : trace[i].code # HttpOkCode
    /\ Cardinality(Calls("fb_return")) = 1
    /\ fb = NoFrame

----------------------------------------------------------------------------
(* cam_test.ino: the earlier firmware.  It captures inside the web handler  *)
(* and inside the MQTT callback, and its ensureMqtt() blocks.  It uses the  *)
(* variables pc, connected, latest, httpPending, delivered, connLog,        *)
(* httpResp, ok and trace, and elapsed for the time spent in delay() since  *)
(* the latest failed connection attempt; the rest keeps its initial value. *)

CamTestStages ==
    {"ct_handleClient", "ct_ensureMqtt", "ct_connect", "ct_delay",
     "ct_whileTest", "ct_mqttLoop"}

\* ensureMqtt, line 113: delay(1000)
RetryDelayMs == 1000

\* the statements of the while loop of ensureMqtt(), lines 106-115
EnsureLoopStages == {"ct_connect", "ct_delay", "ct_whileTest"}

\* what fb->len reads after esp_camera_fb_return(fb) gave the buffer back to
\* the driver, which may have put another frame into it: any frame length
LenAfterReturn == 1..MaxFrameLen

\* the camera, the file system and the driver during one takePhotoTo call
PhotoRuns ==
    {r \in [frame : {NoFrame} \cup (1..MaxFrameLen), opened : BOOLEAN,
            w : 0..MaxFrameLen, lenAfter : LenAfterReturn] : r.w <= r.frame}

\* takePhotoTo(path), lines 46-55: the calls made, the file left behind and
\* the value returned, w == fb->len being evaluated after the buffer went back
takePhotoTo(r) ==
    IF r.frame = NoFrame
    THEN [ok |-> FALSE, calls |-> <<FbGet(FALSE)>>, file |-> latest]
    ELSE IF ~r.opened
    THEN [ok |-> FALSE,
          calls |-> <<FbGet(TRUE), FsWrite(FALSE, FALSE), FbReturn>>,
          file |-> latest]
    ELSE [ok |-> (r.w = r.lenAfter),
          calls |-> <<FbGet(TRUE), FsWrite(TRUE, r.w = r.frame), FbReturn>>,
          file |-> IF r.w = r.frame THEN "full" ELSE "partial"]

\* cam_test mqttCallback, lines 94-95: the test of the message
IsCaptureCommand(msg) ==
    msg.topic = topic_cmd /\ toLowerCase(trim(msg.payload)) = CaptureWord

\* cam_test mqttCallback, lines 96-98, after takePhotoTo returned photoOk
CallbackPublishes(photoOk, up) ==
    (IF photoOk THEN <<publishUrl(up)>> ELSE <<>>)
    \o <<Publish(topic_stat,
                 [status |-> IF photoOk THEN "captured" ELSE "capture_failed"],
                 FALSE, up)>>

\* cam_test ensureMqtt, lines 109-111
cam_test_OnConnected ==
    << Publish(topic_stat, [status |-> "online"], TRUE, TRUE),
       Subscribe(topic_cmd),
       publishUrl(TRUE) >>

CamTestIdle ==
    UNCHANGED <<triggerMqttCapture, triggerWebCapture, doUpload, fb,
                fsOk, httpOk, webInflight, att, lostReport, tally>>

\* the state after setup(), lines 119-171: its ensureMqtt() call returned
\* connected, and the connection may be lost since; its first photo left
\* /latest.jpg written, cut short, or as it was
CamTestInit ==
    /\ pc = "ct_handleClient"
    /\ triggerMqttCapture = FALSE
    /\ triggerWebCapture = FALSE
    /\ connected \in BOOLEAN
    /\ elapsed = 0
    /\ latest \in {"absent", "partial", "full"}
    /\ httpPending = <<>>
    /\ delivered = <<>>
    /\ connLog = <<>>
    /\ httpResp = 0
    /\ doUpload = FALSE
    /\ fb = NoFrame
    /\ fsOk = FALSE
    /\ httpOk = FALSE
    /\ ok = FALSE
    /\ webInflight = FALSE
    /\ att = NoAttempt
    /\ trace = <<>>
    /\ lostReport = FALSE
    /\ tally = NoTally
    /\ HubStart

\* loop(), line 175: server.handleClient() with no request waiting
cam_test_handleClientIdle ==
    /\ pc = "ct_handleClient"
    /\ httpPending = <<>>
    /\ httpResp' = 0
    /\ trace' = <<>>
    /\ pc' = "ct_ensureMqtt"
    /\ UNCHANGED <<connected, latest, httpPending, delivered, connLog, ok>>
    /\ UNCHANGED elapsed
    /\ CamTestIdle
    /\ UNCHANGED hubVars

\* handleRoot, lines 58-67
cam_test_handleRoot ==
    /\ pc = "ct_handleClient"
    /\ httpPending # <<>>
    /\ Head(httpPending).path = "/"
    /\ httpPending' = Tail(httpPending)
    /\ httpResp' = 200
    /\ trace' = <<>>
    /\ pc' = "ct_ensureMqtt"
    /\ UNCHANGED <<connected, latest, delivered, connLog, ok>>
    /\ UNCHANGED elapsed
    /\ CamTestIdle
    /\ UNCHANGED hubVars

\* handleCapture, lines 68-75: the photo is taken inside the handler
cam_test_handleCapture ==
    /\ pc = "ct_handleClient"
    /\ httpPending # <<>>
    /\ Head(httpPending).path = "/capture"
    /\ httpPending' = Tail(httpPending)
    /\ \E r \in PhotoRuns :
         /\ trace' = takePhotoTo(r).calls
         /\ latest' = takePhotoTo(r).file
         /\ ok' = takePhotoTo(r).ok
         /\ httpResp' = IF takePhotoTo(r).ok THEN 302 ELSE 500
    /\ pc' = "ct_ensureMqtt"
    /\ UNCHANGED <<connected, delivered, connLog>>
    /\ UNCHANGED elapsed
    /\ CamTestIdle
    /\ UNCHANGED hubVars

\* handleLatest, lines 76-81
cam_test_handleLatest ==
    /\ pc = "ct_handleClient"
    /\ httpPending # <<>>
    /\ Head(httpPending).path = "/latest.jpg"
    /\ httpPending' = Tail(httpPending)
    /\ httpResp' = IF latest = "absent" THEN 404 ELSE 200
    /\ trace' = <<>>
    /\ pc' = "ct_ensureMqtt"
    /\ UNCHANGED <<connected, latest, delivered, connLog, ok>>
    /\ UNCHANGED elapsed
    /\ CamTestIdle
    /\ UNCHANGED hubVars

\* loop(), line 176, and ensureMqtt, line 103: the call goes into the while
\* loop only when the channel is down
cam_test_ensureMqtt ==
    /\ pc = "ct_ensureMqtt"
    /\ pc' = IF connected THEN "ct_mqttLoop" ELSE "ct_connect"
    /\ connLog' = <<>>
    /\ elapsed' = 0
    /\ UNCHANGED <<connected, latest, httpPending, delivered, httpResp, ok, trace>>
    /\ CamTestIdle
    /\ UNCHANGED hubVars

\* ensureMqtt, lines 107-111: one mqtt.connect()
cam_test_connect ==
    /\ pc = "ct_connect"
    /\ \E success \in BOOLEAN :
         /\ connected' = success
         /\ connLog' = <<MqttConnect(success)>>
                         \o (IF success THEN cam_test_OnConnected ELSE <<>>)
         /\ pc' = IF success THEN "ct_whileTest" ELSE "ct_delay"
    /\ elapsed' = 0
    /\ UNCHANGED <<latest, httpPending, delivered, httpResp, ok, trace>>
    /\ CamTestIdle
    /\ UNCHANGED hubVars

\* mutant: after the delay the call gives up, as the later firmware does
cam_test_delay_GivesUp ==
    /\ pc = "ct_delay"
    /\ pc' = "ct_mqttLoop"
    /\ UNCHANGED <<connected, latest, httpPending, delivered, connLog, httpResp,
                   ok, trace>>
    /\ UNCHANGED elapsed
    /\ CamTestIdle
    /\ UNCHANGED hubVars

\* ensureMqtt, line 113: delay(1000), then the while test of a channel that
\* is still down
cam_test_delay ==
    /\ pc = "ct_delay"
    /\ elapsed' = RetryDelayMs
    /\ pc' = "ct_connect"
    /\ UNCHANGED <<connected, latest, httpPending, delivered, connLog, httpResp,
                   ok, trace>>
    /\ CamTestIdle
    /\ UNCHANGED hubVars

\* ensureMqtt, line 106, after a successful connect: while (!mqtt.connected())
cam_test_whileTest ==
    /\ pc = "ct_whileTest"
    /\ pc' = IF connected THEN "ct_mqttLoop" ELSE "ct_connect"
    /\ UNCHANGED <<connected, latest, httpPending, delivered, connLog, httpResp,
                   ok, trace>>
    /\ UNCHANGED elapsed
    /\ CamTestIdle
    /\ UNCHANGED hubVars

\* loop(), line 177: mqtt.loop() hands a message to mqttCallback, lines 89-100,
\* which takes the photo and publishes before it returns
cam_test_mqttCallback ==
    /\ pc = "ct_mqttLoop"
    /\ connected
    /\ Len(delivered) < BurstLimit
    /\ \E msg \in Messages :
         /\ delivered' = Append(delivered, msg)
         /\ IF IsCaptureCommand(msg)
            THEN \E r \in PhotoRuns :
                   /\ trace' = takePhotoTo(r).calls
                                  \o CallbackPublishes(takePhotoTo(r).ok, connected)
                   /\ latest' = takePhotoTo(r).file
                   /\ ok' = takePhotoTo(r).ok
            ELSE /\ trace' = <<>>
                 /\ UNCHANGED <<latest, ok>>
    /\ UNCHANGED <<pc, connected, httpPending, connLog, httpResp>>
    /\ UNCHANGED elapsed
    /\ CamTestIdle
    /\ UNCHANGED hubVars

cam_test_mqttLoopReturn ==
    /\ pc = "ct_mqttLoop"
    /\ pc' = "ct_handleClient"
    /\ delivered' = <<>>
    /\ UNCHANGED <<connected, latest, httpPending, connLog, httpResp, ok, trace>>
    /\ UNCHANGED elapsed
    /\ CamTestIdle
    /\ UNCHANGED hubVars

CamTestLoopStep ==
    \/ cam_test_handleClientIdle
    \/ cam_test_handleRoot
    \/ cam_test_handleCapture
    \/ cam_test_handleLatest
    \/ cam_test_ensureMqtt
    \/ cam_test_connect
    \/ cam_test_delay
    \/ cam_test_whileTest
    \/ cam_test_mqttLoopReturn

CamTestNext ==
    \/ WebRequestArrives
    \/ Disconnect
    \/ CamTestLoopStep
    \/ cam_test_mqttCallback

CamTestSpec == CamTestInit /\ [][CamTestNext]_vars

\* loop() is called again and again, and a statement that can run does run
CamTestFairSpec == CamTestSpec /\ WF_vars(CamTestLoopStep)

CamTestTypeOK ==
    /\ pc \in CamTestStages
    /\ connected \in BOOLEAN
    /\ latest \in {"absent", "partial", "full"}
    /\ Len(httpPending) <= MaxHttpPending
    /\ Len(delivered) <= BurstLimit
    /\ httpResp \in {0, 200, 302, 404, 500}
    /\ ok \in BOOLEAN
    /\ fb = NoFrame
    /\ elapsed \in {0, RetryDelayMs}

----------------------------------------------------------------------------
(* C25: in cam_test, ensureMqtt() returns only when the control channel is
   connected.  As long as no mqtt.connect() succeeds the call stays in its
   while loop, a failed attempt being followed by delay(1000) and another
   attempt, however many have failed; in the meantime no web request is
   served, no message is handed to the callback and no photo is taken.  The
   call returns if and only if an attempt succeeded and the channel is still
   up at the while test that follows. *)

LatestAttemptFailed == connLog # <<>> /\ ~connLog[1].ok

LatestAttemptSucceeded == connLog # <<>> /\ connLog[1].ok

\* nothing but the connection attempts goes on
NothingServed ==
    /\ UNCHANGED <<httpResp, latest, trace, delivered, ok, fb>>
    /\ \/ httpPending' = httpPending
       \/ /\ Len(httpPending') = Len(httpPending) + 1
          /\ SubSeq(httpPending', 1, Len(httpPending)) = httpPending

\* the statement of the while loop that runs, and where it leads
WhileLoopStep ==
    /\ pc = "ct_connect" =>
          \/ pc' = "ct_delay" /\ ~connected' /\ LatestAttemptFailed'
          \/ pc' = "ct_whileTest" /\ connected' /\ LatestAttemptSucceeded'
    /\ pc = "ct_delay" =>
          /\ pc' = "ct_connect"
          /\ elapsed' = RetryDelayMs
          /\ UNCHANGED <<connected, connLog>>
    /\ pc = "ct_whileTest" =>
          /\ pc' = IF connected THEN "ct_mqttLoop" ELSE "ct_connect"
          /\ UNCHANGED <<connected, connLog>>

\* ensureMqtt() returns
EnsureMqttReturns == pc \in EnsureLoopStages /\ pc' \notin EnsureLoopStages

InEnsureMqttLoop ==
    /\ NothingServed
    /\ pc' # pc => WhileLoopStep
    /\ EnsureMqttReturns =>
          /\ pc' = "ct_mqttLoop"
          /\ connected /\ connected'
          /\ LatestAttemptSucceeded

\* loop(), line 176: the call is made only when the channel is down
EntersOnlyWhenDown ==
    (pc = "ct_ensureMqtt" /\ pc' # pc) =>
        pc' = (IF connected THEN "ct_mqttLoop" ELSE "ct_connect")

\* an attempt follows a failed one after the delay, and only then
RetryAfterDelay ==
    (pc = "ct_connect" /\ LatestAttemptFailed) => elapsed = RetryDelayMs

C25_EnsureMqttBlocksUntilConnected ==
    /\ [][IF pc \in EnsureLoopStages THEN InEnsureMqttLoop
          ELSE EntersOnlyWhenDown]_vars
    /\ [](RetryAfterDelay /\ (pc \in EnsureLoopStages \ {"ct_whileTest"} => ~connected))
    /\ (pc = "ct_whileTest" /\ connected) ~> (pc = "ct_mqttLoop" \/ ~connected)
    /\ (pc = "ct_delay") ~> (pc = "ct_connect")

\* a second attempt is about to be made after a failed one and the delay,
\* with a web request waiting unserved
C25_Witness ==
    /\ pc = "ct_connect"
    /\ LatestAttemptFailed
    /\ elapsed = RetryDelayMs
    /\ ~connected
    /\ httpPending # <<>>

\* the call returned after an attempt succeeded
C25_Returned ==
    /\ pc = "ct_mqttLoop"
    /\ LatestAttemptSucceeded
    /\ connected

----------------------------------------------------------------------------
(* C26 *)

\* mqttCallback of cam_test has just handled a capture command
CommandHandled ==
    /\ pc = "ct_mqttLoop"
    /\ delivered # <<>>
    /\ IsCaptureCommand(delivered[Len(delivered)])

OneAcquisitionOneStatus ==
    /\ Cardinality(Calls("fb_get")) = 1
    /\ Cardinality(Reports) = 1
    /\ \A i \in Reports : trace[i].payload.status \in OutcomeStatuses

\* C26: in cam_test, a capture command is handled inside the callback by one
\* acquisition and one status publish, 'captured' if and only if the frame was
\* acquired and written completely to /latest.jpg and 'capture_failed'
\* otherwise; the retrieval address is announced, before the status, if and
\* only if the capture succeeded.
C26_StatusTellsWhetherFrameWasStored ==
    CommandHandled =>
        /\ OneAcquisitionOneStatus
        /\ ReportIs("captured") <=> (FrameAcquired /\ Stored)
        /\ ReportIs("capture_failed") <=> ~(FrameAcquired /\ Stored)
        /\ (UrlAnnouncements # {}) <=> (FrameAcquired /\ Stored)
        /\ Cardinality(UrlAnnouncements) <= 1
        /\ \A i \in UrlAnnouncements : \A j \in Reports : i < j

\* the frame was acquired and written completely, and the callback published
\* 'capture_failed' and no address
C26_Witness ==
    /\ CommandHandled
    /\ FrameAcquired /\ Stored
    /\ latest = "full"
    /\ ReportIs("capture_failed")
    /\ UrlAnnouncements = {}

\* the write was cut short, and the callback published the address and
\* 'captured'
C26_CapturedAfterShortWrite ==
    /\ CommandHandled
    /\ FrameAcquired /\ PersistFailed
    /\ latest = "partial"
    /\ ReportIs("captured")
    /\ UrlAnnouncements # {}

\* what the callback does guarantee: the status and the address follow the
\* value takePhotoTo returned
C26_StatusFollowsReturnValue ==
    CommandHandled =>
        /\ OneAcquisitionOneStatus
        /\ ReportIs("captured") <=> ok
        /\ (UrlAnnouncements # {}) <=> ok
        /\ Cardinality(UrlAnnouncements) <= 1
        /\ \A i \in UrlAnnouncements : \A j \in Reports : i < j
        /\ ok => FrameAcquired

====
